---- MODULE Spec2Model ----
(***************************************************************************)
(* Student report extractor: the HTTP front door (backend/main.py) and the *)
(* Gemini extraction gateway (backend/extractor.py).                       *)
(*                                                                         *)
(* Texts are TLA+ strings handled character by character.  The model's     *)
(* texts contain no backslash and no character outside ASCII, so string    *)
(* escapes inside JSON and Unicode case folding do not arise.              *)
(***************************************************************************)
EXTENDS Integers, Sequences, FiniteSets, TLC

(***************************************************************************)
(* Python str operations used by the source                                *)
(***************************************************************************)

Char(s, i) == IF i >= 1 /\ i <= Len(s) THEN SubSeq(s, i, i) ELSE ""

MinOf(S) == CHOOSE m \in S : \A n \in S : m <= n

MaxOf(S) == CHOOSE m \in S : \A n \in S : m >= n

\* the ASCII characters str.strip() removes that a TLA+ string can hold
PyWhitespace == {" ", "\t", "\n", "\r", "\f"}

\* str.strip(): leading and trailing whitespace removed
strip(s) ==
    LET keep == {i \in 1..Len(s) : Char(s, i) \notin PyWhitespace}
    IN  IF keep = {} THEN "" ELSE SubSeq(s, MinOf(keep), MaxOf(keep))

UpperLetters == "ABCDEFGHIJKLMNOPQRSTUVWXYZ"

LowerLetters == "abcdefghijklmnopqrstuvwxyz"

\* the lower-case letter of each upper-case letter
LowerOf ==
    [c \in {Char(UpperLetters, i) : i \in 1..Len(UpperLetters)} |->
        Char(LowerLetters, CHOOSE i \in 1..Len(UpperLetters) : Char(UpperLetters, i) = c)]

LowerChar(c) == IF c \in DOMAIN LowerOf THEN LowerOf[c] ELSE c

RECURSIVE lower(_)
\* str.lower()
lower(s) ==
    IF s = "" THEN "" ELSE LowerChar(Char(s, 1)) \o lower(SubSeq(s, 2, Len(s)))

\* Python's `sub in s`
contains(sub, s) ==
    \E i \in 1..(Len(s) - Len(sub) + 1) : SubSeq(s, i, i + Len(sub) - 1) = sub

\* str.startswith(prefix)
startswith(s, prefix) ==
    Len(s) >= Len(prefix) /\ SubSeq(s, 1, Len(prefix)) = prefix

RECURSIVE split_lines(_)
\* text.split('\n')
split_lines(s) ==
    LET nl == {i \in 1..Len(s) : Char(s, i) = "\n"}
    IN  IF nl = {} THEN <<s>>
        ELSE <<SubSeq(s, 1, MinOf(nl) - 1)>>
                 \o split_lines(SubSeq(s, MinOf(nl) + 1, Len(s)))

(***************************************************************************)
(* json.loads: the values it yields and the texts it accepts               *)
(***************************************************************************)

\* A parsed value.  Every value has the same four fields so that any two
\* values can be compared; a number keeps its lexeme, an object is a
\* function from its keys (a later duplicate key replaces an earlier one).
JValue(kind, str, items, fields) ==
    [kind |-> kind, str |-> str, items |-> items, fields |-> fields]

JNull == JValue("null", "", <<>>, <<>>)

JBool(b) == JValue("bool", b, <<>>, <<>>)

JNumber(lexeme) == JValue("number", lexeme, <<>>, <<>>)

JString(s) == JValue("string", s, <<>>, <<>>)

JArray(items) == JValue("array", "", items, <<>>)

JObject(fields) == JValue("object", "", <<>>, fields)

Parsed(v, next) == [ok |-> TRUE, val |-> v, pos |-> next]

ParseError == [ok |-> FALSE, val |-> JNull, pos |-> 0]

JsonWhitespace == {" ", "\t", "\n", "\r"}

Digits == {"0", "1", "2", "3", "4", "5", "6", "7", "8", "9"}

RECURSIVE skip_ws(_, _)
skip_ws(s, i) ==
    IF Char(s, i) \in JsonWhitespace THEN skip_ws(s, i + 1) ELSE i

RECURSIVE skip_digits(_, _)
skip_digits(s, i) ==
    IF Char(s, i) \in Digits THEN skip_digits(s, i + 1) ELSE i

at(s, i, lit) == i + Len(lit) - 1 <= Len(s) /\ SubSeq(s, i, i + Len(lit) - 1) = lit

\* the string body after its opening quote; control characters are refused
scan_string(s, i) ==
    LET quotes == {j \in i..Len(s) : Char(s, j) = "\""}
    IN  IF quotes = {} THEN ParseError
        ELSE LET close == MinOf(quotes)
                 body == SubSeq(s, i, close - 1)
             IN  IF \E j \in 1..Len(body) :
                        Char(body, j) \in {"\t", "\n", "\r", "\f"}
                 THEN ParseError
                 ELSE Parsed(JString(body), close + 1)

\* -?(0|[1-9][0-9]*)(\.[0-9]+)?([eE][-+]?[0-9]+)?
scan_number(s, i) ==
    LET j0 == IF Char(s, i) = "-" THEN i + 1 ELSE i
        intEnd == IF Char(s, j0) = "0" THEN j0 + 1 ELSE skip_digits(s, j0)
        fracEnd == IF Char(s, intEnd) = "." /\ Char(s, intEnd + 1) \in Digits
                   THEN skip_digits(s, intEnd + 1) ELSE intEnd
        expAt == IF Char(s, fracEnd + 1) \in {"+", "-"}
                 THEN fracEnd + 2 ELSE fracEnd + 1
        expEnd == IF Char(s, fracEnd) \in {"e", "E"} /\ Char(s, expAt) \in Digits
                  THEN skip_digits(s, expAt) ELSE fracEnd
    IN  IF Char(s, j0) \notin Digits THEN ParseError
        ELSE Parsed(JNumber(SubSeq(s, i, expEnd - 1)), expEnd)

RECURSIVE parse_value(_, _)
RECURSIVE parse_items(_, _, _)
RECURSIVE parse_members(_, _, _)

parse_array(s, i) ==
    LET j == skip_ws(s, i)
    IN  IF Char(s, j) = "]" THEN Parsed(JArray(<<>>), j + 1)
        ELSE parse_items(s, j, <<>>)

parse_items(s, i, acc) ==
    LET v == parse_value(s, i)
        j == skip_ws(s, v.pos)
    IN  IF ~v.ok THEN ParseError
        ELSE IF Char(s, j) = "]" THEN Parsed(JArray(Append(acc, v.val)), j + 1)
        ELSE IF Char(s, j) = ","
             THEN parse_items(s, skip_ws(s, j + 1), Append(acc, v.val))
        ELSE ParseError

parse_object(s, i) ==
    LET j == skip_ws(s, i)
    IN  IF Char(s, j) = "}" THEN Parsed(JObject(<<>>), j + 1)
        ELSE parse_members(s, j, <<>>)

parse_members(s, i, acc) ==
    LET key == IF Char(s, i) = "\"" THEN scan_string(s, i + 1) ELSE ParseError
        colon == skip_ws(s, key.pos)
        v == parse_value(s, skip_ws(s, colon + 1))
        j == skip_ws(s, v.pos)
        fields == (key.val.str :> v.val) @@ acc
    IN  IF ~key.ok \/ Char(s, colon) # ":" THEN ParseError
        ELSE IF ~v.ok THEN ParseError
        ELSE IF Char(s, j) = "}" THEN Parsed(JObject(fields), j + 1)
        ELSE IF Char(s, j) = ","
             THEN parse_members(s, skip_ws(s, j + 1), fields)
        ELSE ParseError

parse_value(s, i) ==
    LET c == Char(s, i)
    IN  IF c = "\"" THEN scan_string(s, i + 1)
        ELSE IF c = "{" THEN parse_object(s, i + 1)
        ELSE IF c = "[" THEN parse_array(s, i + 1)
        ELSE IF at(s, i, "null") THEN Parsed(JNull, i + 4)
        ELSE IF at(s, i, "true") THEN Parsed(JBool("true"), i + 4)
        ELSE IF at(s, i, "false") THEN Parsed(JBool("false"), i + 5)
        ELSE IF scan_number(s, i).ok THEN scan_number(s, i)
        ELSE IF at(s, i, "NaN") THEN Parsed(JNumber("NaN"), i + 3)
        ELSE IF at(s, i, "Infinity") THEN Parsed(JNumber("Infinity"), i + 8)
        ELSE IF at(s, i, "-Infinity") THEN Parsed(JNumber("-Infinity"), i + 9)
        ELSE ParseError

\* json.loads(s): one value, whitespace around it, nothing after it
json_loads(s) ==
    LET v == parse_value(s, skip_ws(s, 1))
    IN  IF v.ok /\ skip_ws(s, v.pos) = Len(s) + 1 THEN v ELSE ParseError

(***************************************************************************)
(* The requests, the uploads and the external model's answers              *)
(***************************************************************************)

\* the most lines a plain (non-JSON) model output has
MaxLines == 2

\* content types a client declares
ContentTypes ==
    {"image/png", "image/jpeg", "text/plain", "image", "Image/png", "ximage/png", ""}

\* an upload part; `typed` is FALSE when the part declares no content type
\* (UploadFile.content_type is then None)
Uploads ==
    {[typed |-> TRUE, content_type |-> ct] : ct \in ContentTypes}
        \cup {[typed |-> FALSE, content_type |-> ""]}

NoUpload == [typed |-> FALSE, content_type |-> "-"]

\* uploaded byte strings, by what they hold
Contents == {"png bytes", "garbage bytes", "no bytes", "oversized png bytes"}

Unread == "unread"

\* Image.open(BytesIO(image_bytes)): the exception's description, "" when the
\* image opens
open_error(content) ==
    CASE content = "png bytes" -> ""
      [] content = "oversized png bytes" -> "Image size exceeds limit"
      [] OTHER -> "cannot identify image file"

\* await image.read()
ReadOutcomes ==
    {[raised |-> FALSE, content |-> c, error |-> ""] : c \in Contents}
        \cup {[raised |-> TRUE, content |-> Unread, error |-> "upload closed"]}

\* whitespace the model puts before and after its answer
LeadingPads == {"", " \n", "\f"}

TrailingPads == {"", "\n"}

Lines ==
    {"Name: Jane",
     "STUDENT no 7",
     " Student Name: Jane Doe\r",
     "Grade: 5",
     "Year 2024",
     "Comments: good",
     "Surname Doe, upgraded yearly",
     ""}

RECURSIVE LineTexts(_)
\* the texts of exactly n lines
LineTexts(n) ==
    IF n <= 1 THEN Lines
    ELSE {a \o "\n" \o b : a \in Lines, b \in LineTexts(n - 1)}

PlainBodies == UNION {LineTexts(n) : n \in 1..MaxLines}

FullReport ==
    "{\"student_name\": \"Jane Doe\", \"grade_level\": \"5\", "
        \o "\"report_year\": \"2024\", \"general_comments\": \"\", "
        \o "\"subjects\": [], \"raw_text\": \"Jane Doe Grade 5 2024\"}"

FullReportPretty ==
    "{\n \"student_name\": \"Jane\",\n \"grade_level\": \"Grade 5\",\n"
        \o " \"report_year\": \"2024\",\n \"general_comments\": \"good\",\n"
        \o " \"subjects\": [{\"name\": \"Maths\", \"grade\": \"B+\", "
        \o "\"teacher_comment\": \"\"}],\n \"raw_text\": \"Jane\"\n}"

JsonBodies ==
    {FullReport, FullReportPretty,
     "{}", "7", "null", "[]", "\"Jane\"", "007",
     "{\"student_name\": \"Jane\"}",
     "{\"student_name\": \"Jane\",}",
     "{\"student_name\": 7, \"grade_level\": null, \"report_year\": 2024, "
        \o "\"general_comments\": \"\", \"subjects\": \"none\", \"raw_text\": \"\"}",
     "Here is the JSON:\n{\"student_name\": \"Jane\", \"grade_level\": \"5\"}"}

\* what response.text can be
ModelTexts ==
    {l \o b \o r : l \in LeadingPads, b \in PlainBodies \cup JsonBodies,
                   r \in TrailingPads}

ModelErrors == {"429 quota exceeded", "response has no text part"}

\* self.model.generate_content([prompt, image]) and response.text
ModelOutcomes ==
    {[raised |-> FALSE, text |-> t, error |-> ""] : t \in ModelTexts}
        \cup {[raised |-> TRUE, text |-> "", error |-> m] : m \in ModelErrors}

NoGeneration == [raised |-> FALSE, text |-> "", error |-> "not called"]

(***************************************************************************)
(* The extraction gateway: GeminiExtractor                                 *)
(***************************************************************************)

SuccessResult(data) == [type |-> "success", data |-> data]

ErrorResult(message) == [type |-> "error", error |-> message]

NoResult == [type |-> "none"]

\* _extract_field as "the first line holding any of the keywords"
extract_field_first_matching_line(text, keywords) ==
    LET lines == split_lines(text)
        hit == {j \in 1..Len(lines) :
                   \E i \in 1..Len(keywords) : contains(keywords[i], lower(lines[j]))}
    IN  IF hit = {} THEN "" ELSE strip(lines[MinOf(hit)])

\* _extract_field(text, *keywords)
_extract_field(text, keywords) ==
    LET text_lower == lower(text)
        lines == split_lines(text)
        lines_lower == [j \in 1..Len(lines) |-> lower(lines[j])]
        hit(k) == {j \in 1..Len(lines) : contains(k, lines_lower[j])}
        found == {i \in 1..Len(keywords) :
                     contains(keywords[i], text_lower) /\ hit(keywords[i]) # {}}
    IN  IF found = {} THEN ""
        ELSE strip(lines[MinOf(hit(keywords[MinOf(found)]))])

\* the fallback dict with raw_text cut to the text's first line
fallback_data_first_line_raw(extracted_text) ==
    JObject([student_name |-> JString(_extract_field(extracted_text, <<"student", "name">>)),
             grade_level |-> JString(_extract_field(extracted_text, <<"grade">>)),
             report_year |-> JString(_extract_field(extracted_text, <<"year">>)),
             general_comments |-> JString(_extract_field(extracted_text, <<"comments">>)),
             subjects |-> JArray(<<>>),
             raw_text |-> JString(split_lines(extracted_text)[1])])

\* the fallback dict with the subjects key forgotten
fallback_data_without_subjects(extracted_text) ==
    JObject([student_name |-> JString(_extract_field(extracted_text, <<"student", "name">>)),
             grade_level |-> JString(_extract_field(extracted_text, <<"grade">>)),
             report_year |-> JString(_extract_field(extracted_text, <<"year">>)),
             general_comments |-> JString(_extract_field(extracted_text, <<"comments">>)),
             raw_text |-> JString(extracted_text)])

\* the dict built when json.loads raises
fallback_data(extracted_text) ==
    JObject([student_name |-> JString(_extract_field(extracted_text, <<"student", "name">>)),
             grade_level |-> JString(_extract_field(extracted_text, <<"grade">>)),
             report_year |-> JString(_extract_field(extracted_text, <<"year">>)),
             general_comments |-> JString(_extract_field(extracted_text, <<"comments">>)),
             subjects |-> JArray(<<>>),
             raw_text |-> JString(extracted_text)])

\* normalise with the parse error left to the outer except clause
normalise_parse_error_escapes(extracted_text) ==
    LET parsed == json_loads(extracted_text)
    IN  IF parsed.ok THEN SuccessResult(parsed.val)
        ELSE ErrorResult("Extraction failed: Expecting value")

\* normalise with raw_text also written into a parsed object
normalise_overwrites_raw_text(extracted_text) ==
    LET parsed == json_loads(extracted_text)
    IN  IF ~parsed.ok THEN SuccessResult(fallback_data(extracted_text))
        ELSE IF parsed.val.kind # "object" THEN SuccessResult(parsed.val)
        ELSE SuccessResult(JObject(("raw_text" :> JString(extracted_text))
                                       @@ parsed.val.fields))

\* try: data = json.loads(extracted_text)  except Exception: data = {...}
normalise(extracted_text) ==
    LET parsed == json_loads(extracted_text)
    IN  SuccessResult(IF parsed.ok THEN parsed.val ELSE fallback_data(extracted_text))

\* extract_bytes from the return of generate_content on
after_generate(generated) ==
    IF generated.raised THEN ErrorResult(generated.error)
    ELSE normalise(strip(generated.text))

\* before_generate with the decoder's description returned bare
before_generate_bare_message(is_available, image_bytes) ==
    IF ~is_available
    THEN [result |-> ErrorResult("Gemini API not available"),
          opened |-> 0, call_model |-> FALSE]
    ELSE IF open_error(image_bytes) # ""
    THEN [result |-> ErrorResult(open_error(image_bytes)),
          opened |-> 1, call_model |-> FALSE]
    ELSE [result |-> NoResult, opened |-> 1, call_model |-> TRUE]

\* extract_bytes up to the call of generate_content: the result when it ends
\* there, whether Image.open was called, whether the model is to be called
before_generate(is_available, image_bytes) ==
    IF ~is_available
    THEN [result |-> ErrorResult("Gemini API not available"),
          opened |-> 0, call_model |-> FALSE]
    ELSE IF open_error(image_bytes) # ""
    THEN [result |-> ErrorResult("Extraction failed: " \o open_error(image_bytes)),
          opened |-> 1, call_model |-> FALSE]
    ELSE [result |-> NoResult, opened |-> 1, call_model |-> TRUE]

(***************************************************************************)
(* The front door: the FastAPI handlers                                    *)
(***************************************************************************)

\* str(HTTPException(status_code=500, detail=...)): Starlette versions that
\* define __str__ give "500: <detail>", the others give ""
HTTPExceptionStrForms == {"status and detail", "empty"}

str_http_exception(detail, form) ==
    IF form = "status and detail" THEN "500: " \o detail ELSE ""

HttpResponse(status, body) == [status |-> status, body |-> body]

NoResponse == HttpResponse(0, <<>>)

\* the content type check as `'image' in content_type`
is_image_loose(content_type) == contains("image", content_type)

\* image.content_type.startswith('image/')
is_image(content_type) == startswith(content_type, "image/")

\* the handler from `if result["type"] == "success"` on: the HTTPException
\* raised for an error result is caught by the handler's own except clause
\* and raised again with str(e) as its detail
render(result, form) ==
    IF result.type = "success"
    THEN HttpResponse(200, [success |-> TRUE, data |-> result.data])
    ELSE HttpResponse(500, [detail |-> str_http_exception(result.error, form)])

NoHealth == [status |-> "-", extractor_available |-> FALSE]

VARIABLES
    available,      \* GeminiExtractor._available
    pc,             \* where the POST /api/extract handler is
    upload,         \* the request's upload part
    content,        \* the bytes read from the upload
    generated,      \* what the model call gave
    result,         \* what extract_bytes returned
    response,       \* the HTTP response of POST /api/extract
    health,         \* the last response of GET /api/health
    gatewayCalls,   \* calls of extract_bytes in this request
    readCalls,      \* completed reads of the upload in this request
    openCalls,      \* calls of Image.open in this request
    modelCalls      \* calls of generate_content in this request

vars == <<available, pc, upload, content, generated, result, response, health,
          gatewayCalls, readCalls, openCalls, modelCalls>>

\* GeminiExtractor.__init__: the key is present (config.py refuses to load
\* without it); the flag is set unless configuring the client raises
Init ==
    /\ available \in BOOLEAN
    /\ pc = "idle"
    /\ upload = NoUpload
    /\ content = Unread
    /\ generated = NoGeneration
    /\ result = NoResult
    /\ response = NoResponse
    /\ health = NoHealth
    /\ gatewayCalls = 0
    /\ readCalls = 0
    /\ openCalls = 0
    /\ modelCalls = 0

\* POST /api/extract arrives: the content type check
ExtractTextValidate ==
    /\ pc \in {"idle", "done"}
    /\ \E u \in Uploads :
        /\ upload' = u
        /\ IF ~u.typed
           THEN /\ response' = HttpResponse(500, [unhandled |-> "AttributeError"])
                /\ pc' = "done"
           ELSE IF ~is_image(u.content_type)
           THEN /\ response' = HttpResponse(400, [detail |-> "File must be an image"])
                /\ pc' = "done"
           ELSE /\ response' = NoResponse
                /\ pc' = "reading"
    /\ content' = Unread
    /\ generated' = NoGeneration
    /\ result' = NoResult
    /\ gatewayCalls' = 0
    /\ readCalls' = 0
    /\ openCalls' = 0
    /\ modelCalls' = 0
    /\ UNCHANGED <<available, health>>

\* the read of the upload completes and extract_bytes runs up to the model call
ExtractTextRead ==
    /\ pc = "reading"
    /\ \E r \in ReadOutcomes, form \in HTTPExceptionStrForms :
        IF r.raised
        THEN /\ response' = HttpResponse(500, [detail |-> r.error])
             /\ pc' = "done"
             /\ UNCHANGED <<content, result, gatewayCalls, readCalls, openCalls,
                            modelCalls>>
        ELSE LET step == before_generate(available, r.content)
             IN  /\ content' = r.content
                 /\ readCalls' = readCalls + 1
                 /\ gatewayCalls' = gatewayCalls + 1
                 /\ openCalls' = openCalls + step.opened
                 /\ result' = step.result
                 /\ IF step.call_model
                    THEN /\ modelCalls' = modelCalls + 1
                         /\ pc' = "model"
                         /\ UNCHANGED response
                    ELSE /\ response' = render(step.result, form)
                         /\ pc' = "done"
                         /\ UNCHANGED modelCalls
    /\ UNCHANGED <<available, upload, generated, health>>

\* ExtractTextModel with the flag cleared when the model call raises
ExtractTextModel_marks_unavailable ==
    /\ pc = "model"
    /\ \E g \in ModelOutcomes :
        LET returned == after_generate(g)
        IN  /\ generated' = g
            /\ result' = returned
            /\ available' = (available /\ ~g.raised)
            /\ \E form \in HTTPExceptionStrForms : response' = render(returned, form)
    /\ pc' = "done"
    /\ UNCHANGED <<upload, content, health, gatewayCalls, readCalls, openCalls,
                   modelCalls>>

\* ExtractTextModel with one more call of the model after a call that raised
ExtractTextModel_retries ==
    /\ pc = "model"
    /\ \E g \in ModelOutcomes :
        \E again \in IF g.raised THEN ModelOutcomes ELSE {g} :
            LET returned == after_generate(again)
            IN  /\ generated' = again
                /\ result' = returned
                /\ modelCalls' = IF g.raised THEN modelCalls + 1 ELSE modelCalls
                /\ \E form \in HTTPExceptionStrForms :
                       response' = render(returned, form)
    /\ pc' = "done"
    /\ UNCHANGED <<available, upload, content, health, gatewayCalls, readCalls,
                   openCalls>>

\* generate_content returns or raises; extract_bytes and the handler finish
ExtractTextModel ==
    /\ pc = "model"
    /\ \E g \in ModelOutcomes :
        LET returned == after_generate(g)
        IN  /\ generated' = g
            /\ result' = returned
            /\ \E form \in HTTPExceptionStrForms : response' = render(returned, form)
    /\ pc' = "done"
    /\ UNCHANGED <<available, upload, content, health, gatewayCalls, readCalls,
                   openCalls, modelCalls>>

\* GET /api/health; generate_content is a blocking call made on the event
\* loop, so no other handler runs while the extract handler is inside it
HealthCheck ==
    /\ pc \in {"idle", "done", "reading"}
    /\ health' = [status |-> "healthy", extractor_available |-> available]
    /\ UNCHANGED <<available, pc, upload, content, generated, result, response,
                   gatewayCalls, readCalls, openCalls, modelCalls>>

Next ==
    \/ ExtractTextValidate
    \/ ExtractTextRead
    \/ ExtractTextModel
    \/ HealthCheck

Spec == Init /\ [][Next]_vars

(***************************************************************************)
(* Properties                                                              *)
(***************************************************************************)

\* the request's model call has returned or raised and the handler is done
ModelReturned == pc = "done" /\ modelCalls >= 1

\* the model call itself succeeded: a text was obtained
ModelSucceeded == ModelReturned /\ ~generated.raised

\* the model's text as json.loads sees it once extract_bytes has stripped it
ParsedOutput == json_loads(strip(generated.text))

\* r is text without its leading and trailing whitespace
IsTrimOf(r, text) ==
    /\ r = "" \/ (Char(r, 1) \notin PyWhitespace /\ Char(r, Len(r)) \notin PyWhitespace)
    /\ \E i \in 0..(Len(text) - Len(r)) :
        /\ SubSeq(text, i + 1, i + Len(r)) = r
        /\ \A j \in (1..i) \cup ((i + Len(r) + 1)..Len(text)) :
              Char(text, j) \in PyWhitespace

ScalarKeys == {"student_name", "grade_level", "report_year", "general_comments"}

ExtractedFieldKeys == ScalarKeys \cup {"subjects", "raw_text"}

\* v has the six keys, the scalars and raw_text strings, subjects a sequence
HasAllFields(v) ==
    /\ v.kind = "object"
    /\ ExtractedFieldKeys \subseteq DOMAIN v.fields
    /\ \A k \in ScalarKeys \cup {"raw_text"} : v.fields[k].kind = "string"
    /\ v.fields["subjects"].kind = "array"

IsSubject(v) ==
    /\ v.kind = "object"
    /\ DOMAIN v.fields = {"name", "grade", "teacher_comment"}
    /\ \A k \in DOMAIN v.fields : v.fields[k].kind = "string"

\* v matches the ExtractedFields schema
MatchesSchema(v) ==
    /\ HasAllFields(v)
    /\ DOMAIN v.fields = ExtractedFieldKeys
    /\ \A i \in 1..Len(v.fields["subjects"].items) :
          IsSubject(v.fields["subjects"].items[i])

\* C1: once the model call has succeeded the result of extract_bytes is a
\* success, whatever the model's text is, JSON or not.
C1_SuccessOnceModelSucceeded ==
    ModelSucceeded => result.type = "success"

C1_Witness ==
    /\ ModelSucceeded
    /\ ~json_loads(generated.text).ok
    /\ generated.text # ""
    /\ result.type = "success"

\* C2 as stated: for a model text that is not valid JSON the result is a
\* success with subjects empty and raw_text the exact, unmodified model text.
C2_RawTextIsExactOutput ==
    (ModelSucceeded /\ ~json_loads(generated.text).ok) =>
        /\ result.type = "success"
        /\ result.data.kind = "object"
        /\ {"subjects", "raw_text"} \subseteq DOMAIN result.data.fields
        /\ result.data.fields["subjects"] = JArray(<<>>)
        /\ result.data.fields["raw_text"] = JString(generated.text)

\* C2 amended: for a model text whose stripped form is not valid JSON the
\* result is a success with subjects empty and raw_text the model text without
\* its leading and trailing whitespace.
C2_RawTextIsStrippedOutput ==
    (ModelSucceeded /\ ~ParsedOutput.ok) =>
        /\ result.type = "success"
        /\ result.data.kind = "object"
        /\ {"subjects", "raw_text"} \subseteq DOMAIN result.data.fields
        /\ result.data.fields["subjects"] = JArray(<<>>)
        /\ result.data.fields["raw_text"].kind = "string"
        /\ IsTrimOf(result.data.fields["raw_text"].str, generated.text)

C2_Witness ==
    /\ ModelSucceeded
    /\ ~ParsedOutput.ok
    /\ result.type = "success"
    /\ result.data.fields["raw_text"].str # generated.text
    /\ contains("\n", result.data.fields["raw_text"].str)

\* C3: for a model text that is valid JSON matching the ExtractedFields schema
\* the result is a success whose data is the parsed JSON, nothing added,
\* removed or rewritten.
C3_ParsedJsonReturnedAsIs ==
    (ModelSucceeded /\ json_loads(generated.text).ok
        /\ MatchesSchema(json_loads(generated.text).val)) =>
            result = SuccessResult(json_loads(generated.text).val)

C3_Witness ==
    /\ ModelSucceeded
    /\ json_loads(generated.text).ok
    /\ MatchesSchema(json_loads(generated.text).val)
    /\ Len(json_loads(generated.text).val.fields["subjects"].items) = 1
    /\ generated.text # strip(generated.text)
    /\ result.type = "success"

\* C4: an upload whose declared content type does not begin with "image/" is
\* answered 400; the upload is not read, extract_bytes is not called and
\* neither the image decoder nor the model is.
C4_NonImageRejectedBeforeGateway ==
    (upload.typed /\ ~(Len(upload.content_type) >= 6
                         /\ SubSeq(upload.content_type, 1, 6) = "image/")) =>
        /\ pc = "done"
        /\ response.status = 400
        /\ readCalls = 0
        /\ gatewayCalls = 0
        /\ openCalls = 0
        /\ modelCalls = 0

C4_Witness ==
    /\ upload.typed
    /\ upload.content_type = "text/plain"
    /\ response.status = 400
    /\ gatewayCalls = 0

\* C5 as stated: when extract_bytes returns an error the response is a 500
\* whose detail is exactly the error message of the result.
C5_FailureMessageReachesClient ==
    (pc = "done" /\ result.type = "error") =>
        /\ response.status = 500
        /\ response.body = [detail |-> result.error]

\* C6: the availability flag never changes after construction; while it is
\* false every call of extract_bytes returns an error without opening the
\* image or calling the model, and every health response reports the flag.
C6_AvailabilityFixed ==
    [][/\ available' = available
       /\ (~available' /\ gatewayCalls' >= 1) =>
              (result'.type = "error" /\ openCalls' = 0 /\ modelCalls' = 0)
       /\ health' # NoHealth => health'.extractor_available = available']_vars

C6_Witness ==
    /\ ~available
    /\ pc = "done"
    /\ gatewayCalls = 1
    /\ result.type = "error"
    /\ health.status = "healthy"
    /\ ~health.extractor_available

\* C7 as stated: with the gateway available, bytes that do not open as an
\* image give the error "invalid or corrupt image".
C7_DecodeFailureMessageFixed ==
    (pc = "done" /\ gatewayCalls = 1 /\ available /\ open_error(content) # "") =>
        result = ErrorResult("invalid or corrupt image")

\* C7 amended: with the gateway available, bytes that do not open as an image
\* give the error "Extraction failed: " followed by the decoder's description.
C7_DecodeFailureMessagePrefixed ==
    (pc = "done" /\ gatewayCalls = 1 /\ available /\ open_error(content) # "") =>
        result = ErrorResult("Extraction failed: " \o open_error(content))

C7_Witness ==
    /\ pc = "done"
    /\ available
    /\ content = "garbage bytes"
    /\ result.type = "error"
    /\ response.status = 500

\* C8 as stated: every success result carries all six ExtractedFields keys, on
\* the JSON path and on the fallback path.
C8_EverySuccessHasAllFields ==
    (pc = "done" /\ result.type = "success") => HasAllFields(result.data)

\* C8 amended: a success result carries all six keys exactly when it comes
\* from the fallback or the model's JSON itself carries them; on the JSON path
\* no key is defaulted.
C8_FallbackHasAllFields ==
    ModelSucceeded =>
        /\ result.type = "success"
        /\ HasAllFields(result.data)
              <=> (~ParsedOutput.ok \/ HasAllFields(ParsedOutput.val))

C8_Witness ==
    /\ ModelSucceeded
    /\ ~ParsedOutput.ok
    /\ result.type = "success"
    /\ HasAllFields(result.data)
    /\ result.data.fields["student_name"].str = ""
    /\ result.data.fields["raw_text"].str # ""

KeywordsOf(field) ==
    CASE field = "student_name" -> <<"student", "name">>
      [] field = "grade_level" -> <<"grade">>
      [] field = "report_year" -> <<"year">>
      [] field = "general_comments" -> <<"comments">>

\* line j of lines holds keyword k, whatever the case
LineHolds(lines, j, k) == contains(k, lower(lines[j]))

\* value is the trimmed first line, in text order, holding any of the keywords
IsFirstLineWithAnyKeyword(value, lines, keywords) ==
    LET hit == {j \in 1..Len(lines) :
                   \E i \in 1..Len(keywords) : LineHolds(lines, j, keywords[i])}
    IN  IF hit = {} THEN value = ""
        ELSE \E j \in hit : (\A h \in hit : j <= h) /\ IsTrimOf(value, lines[j])

\* value is the trimmed first line holding the earliest listed keyword that
\* some line holds
IsFirstLineOfFirstKeyword(value, lines, keywords) ==
    \/ /\ value = ""
       /\ \A j \in 1..Len(lines), i \in 1..Len(keywords) : ~LineHolds(lines, j, keywords[i])
    \/ \E i \in 1..Len(keywords), j \in 1..Len(lines) :
        /\ LineHolds(lines, j, keywords[i])
        /\ \A h \in 1..(j - 1) : ~LineHolds(lines, h, keywords[i])
        /\ \A e \in 1..(i - 1), h \in 1..Len(lines) : ~LineHolds(lines, h, keywords[e])
        /\ IsTrimOf(value, lines[j])

\* the fallback was taken and gave a dict with the scalar fields
FallbackTaken ==
    /\ ModelSucceeded
    /\ ~ParsedOutput.ok
    /\ result.type = "success"
    /\ result.data.kind = "object"
    /\ ScalarKeys \subseteq DOMAIN result.data.fields

\* C9 as stated: in the fallback each scalar field is the trimmed first line,
\* in text order, holding any of the field's keywords, "" when there is none.
C9_FirstLineWithAnyKeyword ==
    FallbackTaken =>
        \A f \in ScalarKeys :
            IsFirstLineWithAnyKeyword(result.data.fields[f].str,
                                      split_lines(strip(generated.text)), KeywordsOf(f))

\* C9 amended: in the fallback each scalar field is the trimmed first line
\* holding the first of the field's keywords, in the order listed, that occurs
\* in the text, "" when none occurs; a line holding "student" is taken for
\* student_name even when a line holding only "name" comes before it.
C9_FirstLineOfFirstKeyword ==
    (ModelSucceeded /\ ~ParsedOutput.ok) =>
        /\ FallbackTaken
        /\ \A f \in ScalarKeys :
              IsFirstLineOfFirstKeyword(result.data.fields[f].str,
                                        split_lines(strip(generated.text)),
                                        KeywordsOf(f))

C9_Witness ==
    /\ FallbackTaken
    /\ strip(generated.text) = "Name: Jane\nSTUDENT no 7"
    /\ result.data.fields["student_name"].str = "STUDENT no 7"

\* C10: a request calls the model at most once, and only with the gateway
\* available and the image opened; when the call raises, the result is the
\* error carrying the model's description and there is no second call.
C10_ModelCalledAtMostOnce ==
    /\ modelCalls <= 1
    /\ modelCalls = 1 =>
          (available /\ gatewayCalls = 1 /\ openCalls = 1 /\ open_error(content) = "")
    /\ (gatewayCalls = 1 /\ (~available \/ open_error(content) # "")) => modelCalls = 0
    /\ (pc = "done" /\ generated.raised) =>
          (modelCalls = 1 /\ result = ErrorResult(generated.error))

C10_Witness ==
    /\ pc = "done"
    /\ generated.raised
    /\ modelCalls = 1
    /\ result.type = "error"

====
